---- MODULE Spec2Model ----
(***************************************************************************)
(* Model of python-back/network_server.py: the capture thread              *)
(* (sniffing_loop + packet_callback), the Flask handlers                   *)
(* get_network_status / update_network_status, device_action and           *)
(* reset_simulation, and the global state they share (network_devices,     *)
(* lock, is_sniffing_running).                                             *)
(*                                                                         *)
(* The global name network_devices is REBOUND by initialize_devices() to a *)
(* new dict, without the lock.  A thread that already evaluated            *)
(* network_devices.values() / .items() / [ip] keeps working on the old     *)
(* dict object.  The variable network_devices is the dict the global name  *)
(* is bound to (reference 0) and `old` holds the dicts that were unbound   *)
(* by a reset while a thread still referred to them (references 1, 2).  A  *)
(* dict nothing refers to any more is freed, as Python's reference         *)
(* counting does.                                                          *)
(*                                                                         *)
(* Granularity: a block of statements executed under the lock is one step, *)
(* except that it is cut wherever the global network_devices is read       *)
(* again (a lockless reset in between changes the outcome) and once in     *)
(* the middle of packet_callback's mutation of a record.                   *)
(***************************************************************************)
EXTENDS Integers, Sequences, FiniteSets, TLC

\* ---------------------------------------------------------------- bounds
\* total number of frames the capture collaborator delivers in a run
MaxFrames == 3
\* number of frames in the runs with fairness
MaxFairFrames == 2

\* ------------------------------------------------------ program constants
DETECTION_WINDOW_SIZE == 5
DEFAULT_PACKET_LIMIT == 1500

ZERO_MAC == <<"00:00:00", "00:00:00">>
NA_MANUFACTURER == "N/A"
UNKNOWN_MANUFACTURER == "Fabricante Desconocido"
DOMAIN_HTTPS == "HTTPS (Dominio Cifrado)"
DOMAIN_DNS == "DNS (Nombre Cifrado)"
DOMAIN_NA == "N/A o Protocolo No Web"
DOMAIN_HTTP_ERROR == "HTTP (Error Decodificando)"

\* ------------------------------------------------------------- utilities
RECURSIVE SumSeq(_)
SumSeq(s) == IF s = <<>> THEN 0 ELSE Head(s) + SumSeq(Tail(s))

\* the source addresses seen on the wire
IPs == {"10.0.0.5", "10.0.0.7"}

\* ------------------------------------------------------- get_manufacturer
\* A MAC address is the pair <<first three octets, last three octets>> in
\* the lower-case form scapy reports.
Upper(oui) ==
    CASE oui = "90:3a:d9" -> "90:3A:D9"
      [] oui = "c8:3e:99" -> "C8:3E:99"
      [] OTHER -> oui

OUI_MAPPING(oui) ==
    CASE oui = "90:3A:D9" -> "Apple, Inc. (iPhone/Mac)"
      [] oui = "00:0C:29" -> "VMware, Inc."
      [] oui = "00:50:56" -> "VMware, Inc."
      [] oui = "00:00:0C" -> "Cisco Systems"
      [] oui = "A4:7B:2D" -> "Samsung"
      [] oui = "C8:3E:99" -> "Dell"
      [] OTHER -> UNKNOWN_MANUFACTURER

get_manufacturer(mac) ==
    IF mac # ZERO_MAC THEN OUI_MAPPING(Upper(mac[1])) ELSE NA_MANUFACTURER

\* --------------------------------------------------------- extract_domain
\* A payload is a sequence of lines; a line is [name, sep, value]: the text
\* before the first colon, the separator that follows it (": " or ":"),
\* and the rest.
Lower(name) ==
    CASE name = "Host" -> "host"
      [] name = "HOST" -> "host"
      [] OTHER -> name

NoRaw == [present |-> FALSE, lines |-> <<>>]
Raw(lines) == [present |-> TRUE, lines |-> lines]

\* the first line starting with "host:" decides: line.split(': ')[1] exists
\* only when the separator is ": ", otherwise IndexError -> error sentinel
RECURSIVE ScanHost(_)
ScanHost(lines) ==
    IF lines = <<>> THEN "no host line"
    ELSE IF Lower(Head(lines).name) = "host"
         THEN IF Head(lines).sep = ": " THEN Head(lines).value
              ELSE DOMAIN_HTTP_ERROR
         ELSE ScanHost(Tail(lines))

extract_domain(pkt) ==
    LET http == /\ pkt.l4 = "TCP"
                /\ (pkt.dport = 80 \/ pkt.sport = 80)
                /\ pkt.raw.present
        host == IF http THEN ScanHost(pkt.raw.lines) ELSE "no host line"
    IN  IF host # "no host line" THEN host
        ELSE IF pkt.l4 = "TCP" /\ (pkt.dport = 443 \/ pkt.sport = 443)
             THEN DOMAIN_HTTPS
        ELSE IF pkt.l4 = "UDP" /\ (pkt.dport = 53 \/ pkt.sport = 53)
             THEN DOMAIN_DNS
        ELSE DOMAIN_NA

\* ------------------------------------------------------------ the frames
MAC_APPLE == <<"90:3a:d9", "00:00:01">>
MAC_OTHER == <<"aa:bb:cc", "00:00:02">>

Frame(ip, mac, len, l4, sport, dport, raw) ==
    [src |-> ip, mac |-> mac, length |-> len, l4 |-> l4,
     sport |-> sport, dport |-> dport, raw |-> raw]

HostLine == [name |-> "Host", sep |-> ": ", value |-> "example.com"]
BadHostLine == [name |-> "HOST", sep |-> ":", value |-> "example.com"]
GetLine == [name |-> "GET / HTTP/1.1", sep |-> "", value |-> ""]

\* the frames of one device
RateFrames == { Frame("10.0.0.5", MAC_APPLE, 2, "ICMP", 0, 0, NoRaw) }

\* frames of two devices
PairFrames ==
    { Frame(ip, MAC_APPLE, 2, "ICMP", 0, 0, NoRaw) : ip \in IPs }

\* frames of one device that differ in the source MAC
IdentityFrames ==
    { Frame("10.0.0.5", mac, 2, "ICMP", 0, 0, NoRaw) :
        mac \in {ZERO_MAC, MAC_APPLE, MAC_OTHER} }

\* frames of one device that differ in what extract_domain makes of them
DomainFrames ==
    { Frame("10.0.0.5", MAC_APPLE, 2, k[1], 1234, k[2], k[3]) :
        k \in { <<"TCP", 80, Raw(<<GetLine, HostLine>>)>>,
                <<"TCP", 80, Raw(<<BadHostLine>>)>>,
                <<"TCP", 443, NoRaw>>,
                <<"UDP", 53, NoRaw>>,
                <<"ICMP", 0, NoRaw>> } }

\* ------------------------------------------------------------ the records
NoDev == [absent |-> TRUE]

\* lines 178-201: the record packet_callback creates
NewDevice(mac, manufacturer, domain) ==
    [ macAddress |-> mac,
      manufacturer |-> manufacturer,
      status |-> "Connected",
      packetCount |-> 0,
      recentPacketHistory |-> <<>>,
      bandwidthHistoryTotal |-> 0,
      recentBandwidthRate |-> <<>>,
      packetLimit |-> DEFAULT_PACKET_LIMIT,
      last_visited_domain |-> domain,
      packetLengthThisCycle |-> <<>> ]

EmptyDict == [ip \in IPs |-> NoDev]
Keys(d) == {ip \in IPs : d[ip] # NoDev}

\* ----------------------------------------------------------------- state
VARIABLES
    is_sniffing_running,   \* the global flag
    lock,                  \* "free" or the thread inside `with lock`
    network_devices,       \* the dict the global is bound to (ip -> record)
    old,                   \* unbound dicts some thread still refers to
    lpc,                   \* position of the capture thread
    lgen,                  \* dict the capture thread iterates / its record lives in
    lpkt,                  \* frame packet_callback is processing
    nframes,               \* frames delivered so far
    qpc,                   \* position of the status request
    qgen,                  \* dict the status request refers to
    qlist,                 \* keys of the records in device_list
    qresult,               \* the response of the status request
    apc,                   \* position of the device_action request
    areq,                  \* the ip it is about
    aresult,               \* what it returned
    qseen                  \* history: the registry contents a status request
                           \* could have seen while no thread held the lock

vars == <<is_sniffing_running, lock, network_devices, old, lpc, lgen, lpkt,
          nframes, qpc, qgen, qlist, qresult, apc, areq, aresult, qseen>>

loopVars == <<lpc, lgen, lpkt, nframes>>
queryVars == <<qpc, qgen, qlist, qresult>>
actionVars == <<apc, areq, aresult>>

\* references to dicts: 0 is the dict bound to the global, 1 and 2 are old
\* dicts (one per thread that can hold on to one)
OldRefs == {1, 2}
NoGen == -1
NoPkt == [none |-> TRUE]
NoResult == [none |-> TRUE]
NoReq == "no request"

Dict(g) == IF g = 0 THEN network_devices ELSE old[g]

\* Store for threads that would write through the global instead of through
\* the reference they hold
StoreGlobal(g, d, live) ==
    /\ network_devices' = d
    /\ old' = [r \in OldRefs |-> IF r \notin live THEN EmptyDict ELSE old[r]]

\* the dict g becomes d; of the old dicts only those in `live` are still
\* referred to after the step
Store(g, d, live) ==
    /\ network_devices' = IF g = 0 THEN d ELSE network_devices
    /\ old' = [r \in OldRefs |-> IF r \notin live THEN EmptyDict
                                 ELSE IF r = g THEN d ELSE old[r]]

\* a reference is dropped and no dict changes
Free(live) ==
    /\ UNCHANGED network_devices
    /\ old' = [r \in OldRefs |-> IF r \in live THEN old[r] ELSE EmptyDict]

Registry == network_devices

\* lines 91-93, 382, 385: the state when the module has been imported and
\* the capture thread has been created
Init ==
    /\ is_sniffing_running = FALSE
    /\ lock = "free"
    /\ network_devices = EmptyDict
    /\ old = [r \in OldRefs |-> EmptyDict]
    /\ lpc = "start"
    /\ lgen = NoGen
    /\ lpkt = NoPkt
    /\ nframes = 0
    /\ qpc = "idle"
    /\ qgen = NoGen
    /\ qlist = {}
    /\ qresult = NoResult
    /\ apc = "idle"
    /\ areq = NoReq
    /\ aresult = NoResult
    /\ qseen = {}

\* ------------------------------------------------- packet_callback's parts
\* lines 169-201: `if src_ip not in network_devices: network_devices[src_ip] = {...}`
GetOrCreate(d, pkt) ==
    IF pkt.src \in Keys(d) THEN d
    ELSE [d EXCEPT ![pkt.src] =
             NewDevice(pkt.mac, get_manufacturer(pkt.mac), extract_domain(pkt))]

\* line 211
CountPacket(dev) == [dev EXCEPT !.packetCount = @ + 1]

\* lines 218-220
RefreshNever(dev, mac) == dev

RefreshAlways(dev, mac) ==
    [dev EXCEPT !.macAddress = mac, !.manufacturer = get_manufacturer(mac)]

RefreshIdentity(dev, mac) ==
    IF dev.macAddress = ZERO_MAC \/ dev.manufacturer = NA_MANUFACTURER
    THEN [dev EXCEPT !.macAddress = mac, !.manufacturer = get_manufacturer(mac)]
    ELSE dev

\* lines 229-230 with the HTTPS value in the list as well
UpdatesDomainNoHttps(domain) ==
    domain \notin {DOMAIN_NA, DOMAIN_DNS, DOMAIN_HTTPS}

\* lines 229-230
UpdatesDomain(domain) == domain \notin {DOMAIN_NA, DOMAIN_DNS}

RecordDomain(dev, domain) ==
    IF UpdatesDomain(domain) THEN [dev EXCEPT !.last_visited_domain = domain]
    ELSE dev

\* lines 218-230, on a record that is not Blocked
RecordFrame(dev, pkt) ==
    LET d1 == RefreshIdentity(dev, pkt.mac)
        d2 == [d1 EXCEPT !.bandwidthHistoryTotal = @ + pkt.length,
                         !.packetLengthThisCycle = Append(@, pkt.length)]
    IN  RecordDomain(d2, extract_domain(pkt))

\* --------------------------------------------------- sniffing_loop's parts
\* ClearCycle that leaves the lengths of the last cycle in place
ClearCycleKeeps(dev) == dev

\* lines 251-257
ClearCycle(dev) == [dev EXCEPT !.packetLengthThisCycle = <<>>]

\* Evict that drops the newest entry instead of the oldest
EvictNewest(h) ==
    IF Len(h) > DETECTION_WINDOW_SIZE THEN SubSeq(h, 1, Len(h) - 1) ELSE h

\* Evict with the test off by one
EvictLate(h) == IF Len(h) > DETECTION_WINDOW_SIZE + 1 THEN Tail(h) ELSE h

\* lines 304-307: `if len(h) > DETECTION_WINDOW_SIZE: h.pop(0)`
Evict(h) == IF Len(h) > DETECTION_WINDOW_SIZE THEN Tail(h) ELSE h

\* Aggregate without the test of line 289
AggregateBlocked(dev) ==
    LET bytes == SumSeq(dev.packetLengthThisCycle)
        ph == IF bytes > 0
              THEN Append(dev.recentPacketHistory, Len(dev.packetLengthThisCycle))
              ELSE dev.recentPacketHistory
        bw == IF bytes > 0
              THEN Append(dev.recentBandwidthRate, bytes)
              ELSE dev.recentBandwidthRate
    IN  [dev EXCEPT !.recentPacketHistory = Evict(ph),
                    !.recentBandwidthRate = Evict(bw)]

\* Aggregate followed by the scoring of lines 351-358
AggregateAndScore(dev) ==
    LET agg == IF dev.status # "Blocked" THEN AggregateBlocked(dev) ELSE dev
    IN  IF agg.status # "Blocked"
           /\ SumSeq(agg.recentPacketHistory) > agg.packetLimit
        THEN [agg EXCEPT !.status = "Blocked",
                         !.recentPacketHistory = <<>>,
                         !.recentBandwidthRate = <<>>]
        ELSE agg

\* lines 289-307, for one record
Aggregate(dev) ==
    IF dev.status # "Blocked"
    THEN LET bytes == SumSeq(dev.packetLengthThisCycle)
             ph == IF bytes > 0
                   THEN Append(dev.recentPacketHistory, Len(dev.packetLengthThisCycle))
                   ELSE dev.recentPacketHistory
             bw == IF bytes > 0
                   THEN Append(dev.recentBandwidthRate, bytes)
                   ELSE dev.recentBandwidthRate
         IN  [dev EXCEPT !.recentPacketHistory = Evict(ph),
                         !.recentBandwidthRate = Evict(bw)]
    ELSE dev

\* lines 251-257: the loop over network_devices.values()
ClearAll(d) ==
    [ip \in IPs |-> IF d[ip] = NoDev THEN NoDev ELSE ClearCycle(d[ip])]

\* lines 284-307: the loop over network_devices.values()
AggregateAll(d) ==
    [ip \in IPs |-> IF d[ip] = NoDev THEN NoDev ELSE Aggregate(d[ip])]

\* ------------------------------------------------------ the capture thread
\* line 243
LoopStart ==
    /\ lpc = "start"
    /\ is_sniffing_running' = TRUE
    /\ lpc' = "clear_wait"
    /\ UNCHANGED <<lock, network_devices, old, lgen, lpkt, nframes,
                   queryVars, actionVars>>

\* lines 250-251: `with lock:` and the evaluation of network_devices.values()
LoopClearAcquire ==
    /\ lpc = "clear_wait"
    /\ lock = "free"
    /\ lock' = "loop"
    /\ lgen' = 0
    /\ lpc' = "clear"
    /\ UNCHANGED <<is_sniffing_running, network_devices, old, lpkt, nframes,
                   queryVars, actionVars>>

\* lines 251-257 and the release of the lock
LoopClear ==
    /\ lpc = "clear"
    /\ lock' = "free"
    /\ lgen' = NoGen
    /\ Store(lgen, ClearAll(Dict(lgen)), {qgen})
    /\ lpc' = "sniff"
    /\ UNCHANGED <<is_sniffing_running, lpkt, nframes,
                   queryVars, actionVars>>

\* lines 262-267: sniff() hands one frame to packet_callback (lines 133-147)
LoopSniffFrame(frames, max) ==
    /\ lpc = "sniff"
    /\ nframes < max
    /\ \E pkt \in frames :
          /\ lpkt' = pkt
          /\ lpc' = "cb_wait"
    /\ nframes' = nframes + 1
    /\ UNCHANGED <<is_sniffing_running, lock, network_devices, old, lgen,
                   queryVars, actionVars>>

\* lines 150-201: `with lock:` and the discovery of a new device
CbEnter ==
    /\ lpc = "cb_wait"
    /\ lock = "free"
    /\ lock' = "loop"
    /\ network_devices' = GetOrCreate(network_devices, lpkt)
    /\ lpc' = "cb_fetch"
    /\ UNCHANGED <<is_sniffing_running, old, lgen, lpkt, nframes,
                   queryVars, actionVars>>

\* line 204 `device = network_devices[src_ip]` on a dict that has no such
\* key: KeyError leaves `with lock`, leaves sniff() and is caught at line
\* 274, which stops the thread (lines 279-280)
CbKeyError ==
    /\ lpc = "cb_fetch"
    /\ lpkt.src \notin Keys(Registry)
    /\ lock' = "free"
    /\ is_sniffing_running' = FALSE
    /\ lpc' = "stopped"
    /\ lpkt' = NoPkt
    /\ UNCHANGED <<network_devices, old, lgen, nframes, queryVars, actionVars>>

\* lines 204-211 for a record that is not Blocked
CbCount ==
    /\ lpc = "cb_fetch"
    /\ lpkt.src \in Keys(Registry)
    /\ Registry[lpkt.src].status # "Blocked"
    /\ lgen' = 0
    /\ network_devices' = [network_devices EXCEPT ![lpkt.src] = CountPacket(@)]
    /\ lpc' = "cb_update"
    /\ UNCHANGED <<is_sniffing_running, lock, old, lpkt, nframes,
                   queryVars, actionVars>>

\* CbSkipBlocked that would return without leaving `with lock`
CbSkipBlockedHolds ==
    /\ lpc = "cb_fetch"
    /\ lpkt.src \in Keys(Registry)
    /\ Registry[lpkt.src].status = "Blocked"
    /\ lpkt' = NoPkt
    /\ lpc' = "sniff"
    /\ UNCHANGED <<is_sniffing_running, lock, network_devices, old, lgen,
                   nframes, queryVars, actionVars>>

\* lines 204-210 for a Blocked record: nothing is counted
CbSkipBlocked ==
    /\ lpc = "cb_fetch"
    /\ lpkt.src \in Keys(Registry)
    /\ Registry[lpkt.src].status = "Blocked"
    /\ lock' = "free"
    /\ lpkt' = NoPkt
    /\ lpc' = "sniff"
    /\ UNCHANGED <<is_sniffing_running, network_devices, old, lgen, nframes,
                   queryVars, actionVars>>

\* lines 212-230 and the release of the lock
CbUpdate ==
    /\ lpc = "cb_update"
    /\ lock' = "free"
    /\ lgen' = NoGen
    /\ Store(lgen, [Dict(lgen) EXCEPT ![lpkt.src] = RecordFrame(@, lpkt)], {qgen})
    /\ lpkt' = NoPkt
    /\ lpc' = "sniff"
    /\ UNCHANGED <<is_sniffing_running, nframes,
                   queryVars, actionVars>>

\* sniff() returns after its timeout
LoopSniffTimeout ==
    /\ lpc = "sniff"
    /\ lpc' = "agg_wait"
    /\ UNCHANGED <<is_sniffing_running, lock, network_devices, old, lgen, lpkt,
                   nframes, queryVars, actionVars>>

\* the except clause without its `break`: the flag is cleared and the body
\* of the loop goes on
LoopSniffErrorNoBreak ==
    /\ lpc = "sniff"
    /\ is_sniffing_running' = FALSE
    /\ lpc' = "agg_wait"
    /\ UNCHANGED <<lock, network_devices, old, lgen, lpkt, nframes,
                   queryVars, actionVars>>

\* the except clause without line 276: the loop ends, the flag stays
LoopSniffErrorKeepsFlag ==
    /\ lpc = "sniff"
    /\ lpc' = "stopped"
    /\ UNCHANGED <<is_sniffing_running, lock, network_devices, old, lgen, lpkt,
                   nframes, queryVars, actionVars>>

\* sniff() raises (interface or permission failure): lines 274-280
LoopSniffError ==
    /\ lpc = "sniff"
    /\ is_sniffing_running' = FALSE
    /\ lpc' = "stopped"
    /\ UNCHANGED <<lock, network_devices, old, lgen, lpkt, nframes,
                   queryVars, actionVars>>

\* lines 283-284: `with lock:` and the evaluation of network_devices.values()
LoopAggAcquire ==
    /\ lpc = "agg_wait"
    /\ lock = "free"
    /\ lock' = "loop"
    /\ lgen' = 0
    /\ lpc' = "agg"
    /\ UNCHANGED <<is_sniffing_running, network_devices, old, lpkt, nframes,
                   queryVars, actionVars>>

\* lines 284-307 and the release of the lock
LoopAggregate ==
    /\ lpc = "agg"
    /\ lock' = "free"
    /\ lgen' = NoGen
    /\ Store(lgen, AggregateAll(Dict(lgen)), {qgen})
    /\ lpc' = "sleep"
    /\ UNCHANGED <<is_sniffing_running, lpkt, nframes,
                   queryVars, actionVars>>

\* line 310 and the test of line 248, which only this thread can make false
LoopSleep ==
    /\ lpc = "sleep"
    /\ lpc' = "clear_wait"
    /\ UNCHANGED <<is_sniffing_running, lock, network_devices, old, lgen, lpkt,
                   nframes, queryVars, actionVars>>

\* --------------------------------------------------- update_network_status
\* line 353 with >= for >
ReachesLimit(rate, limit) == rate >= limit

\* line 353
ExceedsLimit(rate, limit) == rate > limit

\* lines 342-358, for one record
\* Detect that empties the packet history only
DetectKeepsBandwidth(dev) ==
    IF dev.status = "Blocked" THEN dev
    ELSE IF ExceedsLimit(SumSeq(dev.recentPacketHistory), dev.packetLimit)
         THEN [dev EXCEPT !.status = "Blocked",
                          !.recentPacketHistory = <<>>]
         ELSE dev

\* Detect that also scores the frames of the cycle in flight
DetectInFlight(dev) ==
    IF dev.status = "Blocked" THEN dev
    ELSE IF ExceedsLimit(SumSeq(dev.recentPacketHistory)
                           + Len(dev.packetLengthThisCycle), dev.packetLimit)
         THEN [dev EXCEPT !.status = "Blocked",
                          !.recentPacketHistory = <<>>,
                          !.recentBandwidthRate = <<>>]
         ELSE dev

Detect(dev) ==
    IF dev.status = "Blocked" THEN dev
    ELSE IF ExceedsLimit(SumSeq(dev.recentPacketHistory), dev.packetLimit)
         THEN [dev EXCEPT !.status = "Blocked",
                          !.recentPacketHistory = <<>>,
                          !.recentBandwidthRate = <<>>]
         ELSE dev

\* lines 341-362: the loop over network_devices.items()
DetectAll(d) ==
    [ip \in IPs |-> IF d[ip] = NoDev THEN NoDev ELSE Detect(d[ip])]

\* lines 396-401: the answer when update_network_status raised; it has no
\* devices
QueryFailure == [code |-> 500, isRunning |-> FALSE, devices |-> {}]

\* lines 365-373 and 395: the answer when it returned; `devices` are the keys
\* of the records device_list refers to
QuerySuccess(keys) == [code |-> 200, isRunning |-> TRUE, devices |-> keys]

\* lines 333-337 and 396-401: the thread is not running
QueryFail ==
    /\ qpc = "idle"
    /\ ~is_sniffing_running
    /\ qresult' = QueryFailure
    /\ qpc' = "done"
    /\ UNCHANGED <<is_sniffing_running, lock, network_devices, old, loopVars,
                   qgen, qlist, actionVars>>

\* line 333: the thread is running
QueryStart ==
    /\ qpc = "idle"
    /\ is_sniffing_running
    /\ qpc' = "wait"
    /\ UNCHANGED <<is_sniffing_running, lock, network_devices, old, loopVars,
                   qgen, qlist, qresult, actionVars>>

\* lines 339-341: `with lock:` and list(network_devices.items())
QueryAcquire ==
    /\ qpc = "wait"
    /\ lock = "free"
    /\ lock' = "query"
    /\ qgen' = 0
    /\ qlist' = Keys(Registry)
    /\ qpc' = "pass"
    /\ UNCHANGED <<is_sniffing_running, network_devices, old, loopVars,
                   qresult, actionVars>>

\* lines 341-362 and the release of the lock
QueryPass ==
    /\ qpc = "pass"
    /\ lock' = "free"
    /\ qgen' = NoGen
    /\ qlist' = {}
    /\ Store(qgen, DetectAll(Dict(qgen)), {lgen})
    /\ qpc' = "released"
    /\ UNCHANGED <<is_sniffing_running, loopVars, qresult,
                   actionVars>>

\* line 365: list(network_devices.values()), after the lock was released
QueryList ==
    /\ qpc = "released"
    /\ qgen' = 0
    /\ qlist' = Keys(Registry)
    /\ qpc' = "listed"
    /\ UNCHANGED <<is_sniffing_running, lock, network_devices, old, loopVars,
                   qresult, actionVars>>

\* line 395: what jsonify writes into the response when it runs in the
\* current state: the content, at this instant, of the records device_list
\* refers to
Serialized ==
    [ip \in IPs |-> IF ip \in qlist THEN Dict(qgen)[ip] ELSE NoDev]

\* line 395: jsonify builds the response (Serialized) and device_list dies
QuerySerialize ==
    /\ qpc = "listed"
    /\ qresult' = QuerySuccess(qlist)
    /\ qgen' = NoGen
    /\ qlist' = {}
    /\ Free({lgen})
    /\ qpc' = "done"
    /\ UNCHANGED <<is_sniffing_running, lock, loopVars,
                   actionVars>>

\* the response has been sent
QueryReturn ==
    /\ qpc = "done"
    /\ qresult' = NoResult
    /\ qpc' = "idle"
    /\ UNCHANGED <<is_sniffing_running, lock, network_devices, old, loopVars,
                   qgen, qlist, actionVars>>

\* ----------------------------------------------------------- device_action
\* `limit` as request.json delivers it
NoLimit == [kind |-> "null"]
IntLimit(n) == [kind |-> "int", n |-> n]
StrLimit(chars) == [kind |-> "str", chars |-> chars]
ListLimit == [kind |-> "list"]

DigitValue(c) ==
    CASE c = "0" -> 0 [] c = "1" -> 1 [] c = "2" -> 2 [] c = "3" -> 3
      [] OTHER -> -1

RECURSIVE DigitsValue(_, _)
\* value of a digit string, -1 when a character is not a digit
DigitsValue(chars, acc) ==
    IF chars = <<>> THEN acc
    ELSE IF DigitValue(Head(chars)) < 0 THEN -1
         ELSE DigitsValue(Tail(chars), 10 * acc + DigitValue(Head(chars)))

\* line 425 `int(limit)`: the value, or the exception it raises
PyInt(limit) ==
    CASE limit.kind = "int" -> [exc |-> "none", n |-> limit.n]
      [] limit.kind = "str" ->
            LET neg == limit.chars # <<>> /\ Head(limit.chars) = "-"
                digits == IF neg THEN Tail(limit.chars) ELSE limit.chars
                v == IF digits = <<>> THEN -1 ELSE DigitsValue(digits, 0)
            IN  IF v < 0 THEN [exc |-> "ValueError", n |-> 0]
                ELSE [exc |-> "none", n |-> IF neg THEN 0 - v ELSE v]
      [] OTHER -> [exc |-> "TypeError", n |-> 0]

\* lines 416-421
ApplyStatus(dev, action) ==
    CASE action = "block" -> [dev EXCEPT !.status = "Blocked"]
      [] action = "unblock" -> [dev EXCEPT !.status = "Connected"]
      [] OTHER -> dev

\* line 426
AcceptsLimit(n) == n > 0

\* ApplyLimit that scores the record against the limit it has just set
ApplyLimitAndScore(dev, limit) ==
    IF limit.kind = "null" THEN dev
    ELSE IF PyInt(limit).exc = "none" /\ AcceptsLimit(PyInt(limit).n)
         THEN IF dev.status # "Blocked"
                 /\ SumSeq(dev.recentPacketHistory) > PyInt(limit).n
              THEN [dev EXCEPT !.packetLimit = PyInt(limit).n,
                               !.status = "Blocked",
                               !.recentPacketHistory = <<>>,
                               !.recentBandwidthRate = <<>>]
              ELSE [dev EXCEPT !.packetLimit = PyInt(limit).n]
         ELSE dev

\* lines 423-432
ApplyLimit(dev, limit) ==
    IF limit.kind = "null" THEN dev
    ELSE IF PyInt(limit).exc = "none" /\ AcceptsLimit(PyInt(limit).n)
         THEN [dev EXCEPT !.packetLimit = PyInt(limit).n]
         ELSE dev

\* an exception other than ValueError leaves the handler: Flask answers 500
ActionCode(limit) ==
    IF limit.kind # "null" /\ PyInt(limit).exc = "TypeError" THEN 500 ELSE 200

\* the values request.json can hold
Actions == {"block", "unblock", "restart"}
Limits == {NoLimit, IntLimit(-1), IntLimit(0), IntLimit(1),
           StrLimit(<<"1">>), StrLimit(<<"1", "x">>), ListLimit}

\* device_action that would register the address it does not know
ActNotFoundCreates ==
    /\ apc = "idle"
    /\ lock = "free"
    /\ \E ip \in IPs :
          /\ ip \notin Keys(Registry)
          /\ network_devices' = [network_devices EXCEPT ![ip] =
                                    NewDevice(ZERO_MAC, NA_MANUFACTURER, DOMAIN_NA)]
    /\ aresult' = [code |-> 404, success |-> FALSE]
    /\ apc' = "done"
    /\ UNCHANGED <<is_sniffing_running, lock, old, loopVars, queryVars, areq>>

\* lines 412-413 and 435-438: the ip is not a key
ActNotFound ==
    /\ apc = "idle"
    /\ lock = "free"
    /\ \E ip \in IPs : ip \notin Keys(Registry)
    /\ aresult' = [code |-> 404, success |-> FALSE]
    /\ apc' = "done"
    /\ UNCHANGED <<is_sniffing_running, lock, network_devices, old, loopVars,
                   queryVars, areq>>

\* lines 412-413: `with lock:` and `ip in network_devices` holds
ActBegin ==
    /\ apc = "idle"
    /\ lock = "free"
    /\ \E ip \in Keys(Registry) : areq' = ip
    /\ lock' = "action"
    /\ apc' = "fetch"
    /\ UNCHANGED <<is_sniffing_running, network_devices, old, loopVars,
                   queryVars, aresult>>

\* line 414 `device = network_devices[ip]` on a dict that has no such key
ActKeyError ==
    /\ apc = "fetch"
    /\ areq \notin Keys(Registry)
    /\ lock' = "free"
    /\ aresult' = [code |-> 500, success |-> FALSE]
    /\ areq' = NoReq
    /\ apc' = "done"
    /\ UNCHANGED <<is_sniffing_running, network_devices, old, loopVars,
                   queryVars>>

\* lines 414-434 and the release of the lock.  `action` and `limit` are
\* first used here, so the request's values are drawn here.
ActApplyWith(action, limit) ==
    /\ apc = "fetch"
    /\ areq \in Keys(Registry)
    /\ network_devices' = [network_devices EXCEPT ![areq] =
                              ApplyLimit(ApplyStatus(@, action), limit)]
    /\ aresult' = [code |-> ActionCode(limit),
                   success |-> ActionCode(limit) = 200]
    /\ lock' = "free"
    /\ areq' = NoReq
    /\ apc' = "done"
    /\ UNCHANGED <<is_sniffing_running, old, loopVars, queryVars>>

ActApply == \E action \in Actions, limit \in Limits : ActApplyWith(action, limit)

\* the response has been sent
ActReturn ==
    /\ apc = "done"
    /\ aresult' = NoResult
    /\ apc' = "idle"
    /\ UNCHANGED <<is_sniffing_running, lock, network_devices, old, loopVars,
                   queryVars, areq>>

\* -------------------------------------------------------- reset_simulation
\* lines 96-101, 441-446: the global is bound to a new empty dict; no lock
\* is taken.  A thread that refers to the dict bound so far keeps it: the
\* dict becomes an old dict and the thread's reference follows it.
Reset ==
    LET r == CHOOSE x \in OldRefs \ {lgen, qgen} :
                 \A y \in OldRefs \ {lgen, qgen} : x <= y
    IN  /\ network_devices' = EmptyDict
        /\ IF 0 \in {lgen, qgen}
           THEN /\ old' = [old EXCEPT ![r] = network_devices]
                /\ lgen' = IF lgen = 0 THEN r ELSE lgen
                /\ qgen' = IF qgen = 0 THEN r ELSE qgen
           ELSE UNCHANGED <<old, lgen, qgen>>
        /\ UNCHANGED <<is_sniffing_running, lock, lpc, lpkt, nframes,
                       qpc, qlist, qresult, actionVars>>

\* ------------------------------------------------------------------- specs
Queries ==
    \/ QueryFail \/ QueryStart \/ QueryAcquire \/ QueryPass \/ QueryList
    \/ QuerySerialize

\* device_action without a reset racing it
Actors == ActNotFound \/ ActBegin \/ ActApply

\* the capture thread once started, without a reset racing it
Cycle ==
    \/ LoopClearAcquire \/ LoopClear
    \/ CbEnter \/ CbCount \/ CbSkipBlocked \/ CbUpdate
    \/ LoopSniffTimeout \/ LoopSniffError
    \/ LoopAggAcquire \/ LoopAggregate \/ LoopSleep

\* reset_simulation and what only happens when it races another thread
Resets == Reset \/ CbKeyError \/ ActKeyError

\* A finished response leaves the process before any other thread runs:
\* sending it touches no shared state, so no behaviour of the shared state
\* is lost.
Sending == qpc = "done" \/ apc = "done"
Send == QueryReturn \/ ActReturn

\* every thread and every handler
Step(frames) ==
    \/ ~Sending /\ \/ LoopSniffFrame(frames, MaxFrames)
                    \/ LoopStart \/ Cycle \/ Queries \/ Actors \/ Resets
    \/ Send

\* frames of one device
Next == Step(RateFrames) /\ UNCHANGED qseen

Spec == Init /\ [][Next]_vars

\* a state reached after four capture cycles with one frame of 10.0.0.5
\* each, at the start of the fifth
InitWindow ==
    /\ is_sniffing_running = TRUE
    /\ lock = "free"
    /\ network_devices =
          [EmptyDict EXCEPT !["10.0.0.5"] =
              [NewDevice(MAC_APPLE, get_manufacturer(MAC_APPLE), DOMAIN_NA)
                  EXCEPT !.packetCount = 4,
                         !.bandwidthHistoryTotal = 8,
                         !.recentPacketHistory = <<1, 1, 1, 1>>,
                         !.recentBandwidthRate = <<2, 2, 2, 2>>]]
    /\ old = [r \in OldRefs |-> EmptyDict]
    /\ lpc = "sniff"
    /\ lgen = NoGen
    /\ lpkt = NoPkt
    /\ nframes = 0
    /\ qpc = "idle"
    /\ qgen = NoGen
    /\ qlist = {}
    /\ qresult = NoResult
    /\ apc = "idle"
    /\ areq = NoReq
    /\ aresult = NoResult
    /\ qseen = {}

\* every thread and every handler, from that state on
NextWindow ==
    /\ \/ ~Sending /\ \/ LoopSniffFrame(RateFrames, MaxFrames)
                      \/ Cycle \/ Queries \/ Actors \/ Resets
       \/ Send
    /\ UNCHANGED qseen

SpecWindow == InitWindow /\ [][NextWindow]_vars

\* the capture thread, status requests and device actions, no reset;
\* frames of two devices
NextPair ==
    /\ \/ ~Sending /\ \/ LoopSniffFrame(PairFrames, MaxFrames)
                      \/ LoopStart \/ Cycle \/ Queries \/ Actors
       \/ Send
    /\ UNCHANGED qseen

SpecPair == Init /\ [][NextPair]_vars

\* the capture thread, device actions and resets, no status request;
\* frames that differ in the source MAC
NextIdentity ==
    /\ \/ ~Sending /\ \/ LoopSniffFrame(IdentityFrames, MaxFrames)
                      \/ LoopStart \/ Cycle \/ Actors \/ Resets
       \/ ActReturn
    /\ UNCHANGED qseen

SpecIdentity == Init /\ [][NextIdentity]_vars

\* the same with frames that differ in the classified domain
NextDomain ==
    /\ \/ ~Sending /\ \/ LoopSniffFrame(DomainFrames, MaxFrames)
                      \/ LoopStart \/ Cycle \/ Actors \/ Resets
       \/ ActReturn
    /\ UNCHANGED qseen

SpecDomain == Init /\ [][NextDomain]_vars

\* the capture thread and status requests, with the history of what a
\* request could have seen: while a request is in flight, every content the
\* registry has at an instant at which no thread holds the lock
NextSnapshot ==
    /\ \/ ~Sending /\ \/ LoopSniffFrame(RateFrames, MaxFrames)
                      \/ LoopStart \/ LoopClearAcquire \/ LoopClear
                      \/ CbEnter \/ CbCount \/ CbUpdate
                      \/ LoopSniffTimeout \/ LoopSniffError
                      \/ LoopAggAcquire \/ LoopAggregate \/ LoopSleep
                      \/ Queries
       \/ QueryReturn
    /\ qseen' = IF qpc' \in {"idle", "done"} THEN {}
                ELSE IF lock' = "free" THEN qseen \cup {network_devices'}
                ELSE qseen

SpecSnapshot == Init /\ [][NextSnapshot]_vars

\* every thread and every handler, each taking its steps whenever it can:
\* a thread that can take its next step for ever takes it, the lock is
\* handed to whichever waiter the scheduler picks.  Requests, frames and the
\* failure of sniff() come from outside and need not happen; no reset.
NextFair ==
    /\ \/ LoopSniffFrame(RateFrames, MaxFairFrames)
       \/ LoopStart \/ Cycle \/ Queries \/ Actors \/ Send
    /\ UNCHANGED qseen

\* a step of the action A of a thread
Taken(A) == A /\ UNCHANGED qseen

Fairness ==
    /\ WF_vars(Taken(LoopStart)) /\ WF_vars(Taken(LoopClearAcquire)) /\ WF_vars(Taken(LoopClear))
    /\ WF_vars(Taken(CbEnter)) /\ WF_vars(Taken(CbCount))
    /\ WF_vars(Taken(CbSkipBlocked)) /\ WF_vars(Taken(CbUpdate))
    /\ WF_vars(Taken(LoopSniffTimeout)) /\ WF_vars(Taken(LoopAggAcquire))
    /\ WF_vars(Taken(LoopAggregate)) /\ WF_vars(Taken(LoopSleep))
    /\ WF_vars(Taken(QueryAcquire)) /\ WF_vars(Taken(QueryPass)) /\ WF_vars(Taken(QueryList))
    /\ WF_vars(Taken(QuerySerialize)) /\ WF_vars(Taken(QueryReturn))
    /\ WF_vars(Taken(ActApply)) /\ WF_vars(Taken(ActReturn))

SpecFair == Init /\ [][NextFair]_vars /\ Fairness

\* the same with resets, and with a capture collaborator that never fails:
\* sniff() itself raises nothing
NextNoError ==
    /\ \/ LoopSniffFrame(RateFrames, MaxFairFrames)
       \/ LoopStart \/ LoopClearAcquire \/ LoopClear
       \/ CbEnter \/ CbCount \/ CbSkipBlocked \/ CbUpdate
       \/ LoopSniffTimeout \/ LoopAggAcquire \/ LoopAggregate \/ LoopSleep
       \/ Queries \/ Actors \/ Resets \/ Send
    /\ UNCHANGED qseen

SpecNoError ==
    /\ Init /\ [][NextNoError]_vars /\ Fairness
    /\ WF_vars(Taken(CbKeyError)) /\ WF_vars(Taken(ActKeyError))

\* ------------------------------------------------------------------ claims
AllDicts == {network_devices} \cup {old[r] : r \in OldRefs}

\* C1: in every reachable state every record, of the registry and of every
\* dict a thread still holds, has at most DETECTION_WINDOW_SIZE entries in
\* recentPacketHistory and in recentBandwidthRate.
C1_WindowBounded ==
    \A d \in AllDicts : \A ip \in Keys(d) :
        /\ Len(d[ip].recentPacketHistory) <= DETECTION_WINDOW_SIZE
        /\ Len(d[ip].recentBandwidthRate) <= DETECTION_WINDOW_SIZE

\* a cycle has ended with a full window from which an entry was evicted
C1_Witness ==
    /\ lpc = "sleep"
    /\ \E ip \in Keys(network_devices) :
          /\ Len(network_devices[ip].recentPacketHistory) = DETECTION_WINDOW_SIZE
          /\ Len(network_devices[ip].recentBandwidthRate) = DETECTION_WINDOW_SIZE
          /\ network_devices[ip].packetCount
               > SumSeq(network_devices[ip].recentPacketHistory)

\* C2: a detection pass over the registry sets Blocked, and empties both
\* histories of, exactly the records that were not Blocked and had
\* sum(recentPacketHistory) > packetLimit; every other record (Blocked, or
\* with a sum up to and including the limit) is left as it was.
C2_PassBlocksExactly ==
    [][ (QueryPass /\ qgen = 0) =>
          /\ Keys(network_devices') = Keys(network_devices)
          /\ \A ip \in Keys(network_devices) :
                LET d == network_devices[ip]
                    e == network_devices'[ip]
                IN  IF d.status # "Blocked"
                       /\ SumSeq(d.recentPacketHistory) > d.packetLimit
                    THEN e = [d EXCEPT !.status = "Blocked",
                                       !.recentPacketHistory = <<>>,
                                       !.recentBandwidthRate = <<>>]
                    ELSE e = d ]_vars

\* a pass has ended; one device's count exceeds its limit and the device is
\* Blocked with empty histories, another one's window equals its limit and
\* the device is Connected
C2_Witness ==
    /\ qpc = "released"
    /\ \E a, b \in Keys(network_devices) :
          /\ network_devices[a].status = "Blocked"
          /\ network_devices[a].recentPacketHistory = <<>>
          /\ network_devices[a].recentBandwidthRate = <<>>
          /\ network_devices[a].packetCount > network_devices[a].packetLimit
          /\ network_devices[b].status = "Connected"
          /\ network_devices[b].recentPacketHistory # <<>>
          /\ SumSeq(network_devices[b].recentPacketHistory)
               = network_devices[b].packetLimit

\* the aggregation of the registry brings the window of the Connected
\* record d from at most its limit to above it
CrossesLimit(d) ==
    /\ d.status = "Connected"
    /\ SumSeq(d.recentPacketHistory) <= d.packetLimit
    /\ d.packetLengthThisCycle # <<>>
    /\ SumSeq(Evict(Append(d.recentPacketHistory, Len(d.packetLengthThisCycle))))
         > d.packetLimit

\* C3 as claimed: when the cycle-boundary aggregation brings a Connected
\* device's sum(recentPacketHistory) above its packetLimit, the device is
\* Blocked with both histories empty once that aggregation has completed.
C3_BlockedAfterCycle ==
    [][ (LoopAggregate /\ lgen = 0) =>
          \A ip \in Keys(network_devices) :
              CrossesLimit(network_devices[ip]) =>
                  /\ network_devices'[ip].status = "Blocked"
                  /\ network_devices'[ip].recentPacketHistory = <<>>
                  /\ network_devices'[ip].recentBandwidthRate = <<>> ]_vars

\* C3 as amended: the aggregation that brings a Connected device's sum above
\* its packetLimit leaves it Connected with the new entry in both histories;
\* it is a detection pass that finds it so which sets it Blocked and empties
\* both histories.
C3_BlockedAtNextPass ==
    /\ [][ (LoopAggregate /\ lgen = 0) =>
             \A ip \in Keys(network_devices) :
                 CrossesLimit(network_devices[ip]) =>
                     /\ network_devices'[ip].status = "Connected"
                     /\ SumSeq(network_devices'[ip].recentPacketHistory)
                          > network_devices'[ip].packetLimit
                     /\ network_devices'[ip].recentBandwidthRate # <<>> ]_vars
    /\ [][ (QueryPass /\ qgen = 0) =>
             \A ip \in Keys(network_devices) :
                 ( /\ network_devices[ip].status = "Connected"
                   /\ SumSeq(network_devices[ip].recentPacketHistory)
                        > network_devices[ip].packetLimit ) =>
                     /\ network_devices'[ip].status = "Blocked"
                     /\ network_devices'[ip].recentPacketHistory = <<>>
                     /\ network_devices'[ip].recentBandwidthRate = <<>> ]_vars

\* a cycle has ended and left a Connected device above its limit
C3_Witness ==
    /\ lpc = "sleep"
    /\ \E ip \in Keys(network_devices) :
          /\ network_devices[ip].status = "Connected"
          /\ network_devices[ip].packetLengthThisCycle # <<>>
          /\ SumSeq(network_devices[ip].recentPacketHistory)
               > network_devices[ip].packetLimit

\* C4: no step changes packetCount, bandwidthHistoryTotal,
\* recentPacketHistory or recentBandwidthRate of a record of the registry
\* that is Blocked; only a reset, which removes the record, ends that.
C4_BlockedFrozen ==
    [][ \A ip \in Keys(network_devices) :
          ( /\ network_devices[ip].status = "Blocked"
            /\ ip \in Keys(network_devices') ) =>
              /\ network_devices'[ip].packetCount = network_devices[ip].packetCount
              /\ network_devices'[ip].bandwidthHistoryTotal
                   = network_devices[ip].bandwidthHistoryTotal
              /\ network_devices'[ip].recentPacketHistory
                   = network_devices[ip].recentPacketHistory
              /\ network_devices'[ip].recentBandwidthRate
                   = network_devices[ip].recentBandwidthRate ]_vars

\* packet_callback holds a frame of a Blocked device that has a history
C4_Witness ==
    /\ lpc = "cb_fetch"
    /\ lpkt.src \in Keys(network_devices)
    /\ network_devices[lpkt.src].status = "Blocked"
    /\ network_devices[lpkt.src].recentPacketHistory # <<>>

\* C5: once a record of the registry holds a MAC other than the zero MAC and
\* a manufacturer other than "N/A", no step changes its macAddress or its
\* manufacturer, whatever MAC later frames of that IP carry, for as long as
\* the record is in the registry (a reset removes it).
C5_FirstIdentityWins ==
    [][ \A ip \in Keys(network_devices) :
          ( /\ network_devices[ip].macAddress # ZERO_MAC
            /\ network_devices[ip].manufacturer # NA_MANUFACTURER
            /\ ip \in Keys(network_devices') ) =>
              /\ network_devices'[ip].macAddress = network_devices[ip].macAddress
              /\ network_devices'[ip].manufacturer
                   = network_devices[ip].manufacturer ]_vars

\* packet_callback is about to update a record that holds a real MAC with a
\* frame that carries another real MAC
C5_Witness ==
    /\ lpc = "cb_update"
    /\ lgen = 0
    /\ lpkt.mac # ZERO_MAC
    /\ network_devices[lpkt.src].macAddress # ZERO_MAC
    /\ network_devices[lpkt.src].manufacturer # NA_MANUFACTURER
    /\ network_devices[lpkt.src].macAddress # lpkt.mac

C7_WritesUnderLock ==
    [][ network_devices' # network_devices =>
          (lock # "free" \/ lock' # "free") ]_vars

\* C8: what a successful status request serialises for its caller is the
\* content the registry had at one instant, during the request, at which no
\* thread was inside a critical section.
C8_ValueCopy ==
    qpc = "listed" => Serialized \in qseen

\* C9: the flag is true exactly between the start of the loop and its end;
\* the loop goes from Idle to Running only, leaves Running only out of the
\* capture call (sniff and the callback it runs), and once stopped stays
\* stopped: the flag stays false, no capture is issued, no frame ingested.
C9_StoppedIsTerminal ==
    /\ [](is_sniffing_running <=> lpc \notin {"start", "stopped"})
    /\ [][ /\ lpc = "start" => lpc' \in {"start", "clear_wait"}
           /\ lpc' = "start" => lpc = "start"
           /\ (lpc # "stopped" /\ lpc' = "stopped") =>
                 lpc \in {"sniff", "cb_fetch"}
           /\ lpc = "stopped" =>
                 /\ lpc' = "stopped"
                 /\ ~is_sniffing_running'
                 /\ UNCHANGED <<nframes, lpkt, lgen>> ]_vars

\* the loop has stopped after it ingested frames
C9_Witness ==
    /\ lpc = "stopped"
    /\ ~is_sniffing_running
    /\ nframes > 0
    /\ Keys(network_devices) # {}

\* C10: a status request that begins once the loop has stopped ends at once
\* with the failure response (500, isRunning false, no devices); it does not
\* take the lock, runs no detection pass and changes no record.
C10_QueryAfterStopFails ==
    [][ (lpc = "stopped" /\ qpc = "idle" /\ qpc' # "idle") =>
          /\ qpc' = "done"
          /\ qresult' = QueryFailure
          /\ UNCHANGED <<lock, network_devices, old>> ]_vars

\* a request has failed after the stop while a Connected device is above
\* its limit
C10_Witness ==
    /\ lpc = "stopped"
    /\ qpc = "done"
    /\ qresult = QueryFailure
    /\ \E ip \in Keys(network_devices) :
          /\ network_devices[ip].status = "Connected"
          /\ SumSeq(network_devices[ip].recentPacketHistory)
               > network_devices[ip].packetLimit

\* C11: the capture thread leaves Running only when sniff() itself fails;
\* in particular no reset, whenever it runs, makes the thread stop.
C11_ResetKeepsRunning ==
    [][ (lpc # "stopped" /\ lpc' = "stopped") => lpc = "sniff" ]_vars

\* C12: a reset leaves the registry empty; a record that appears in the
\* registry is the fresh record of the frame packet_callback is entering
\* with; a thread that still refers to a dict from before a reset writes
\* nothing into the registry; and a status request that builds its list
\* from an empty registry answers 200 with isRunning true and no devices.
C12_ResetWipes ==
    /\ [][ Reset => Keys(network_devices') = {} ]_vars
    /\ [][ \A ip \in Keys(network_devices') \ Keys(network_devices) :
              /\ lpc = "cb_wait"
              /\ lpkt.src = ip
              /\ network_devices'[ip] =
                    NewDevice(lpkt.mac, get_manufacturer(lpkt.mac),
                              extract_domain(lpkt)) ]_vars
    /\ [][ ( \/ lgen \in OldRefs /\ lpc' # lpc
             \/ qgen \in OldRefs /\ qpc' # qpc ) =>
              network_devices' = network_devices ]_vars
    /\ [][ QueryList => qlist' = Keys(network_devices) /\ qgen' = 0 ]_vars
    /\ [][ QuerySerialize =>
              qresult' = [code |-> 200, isRunning |-> TRUE, devices |-> qlist]
         ]_vars

\* a status request answered with no devices after the capture thread had
\* created, updated and aggregated a record, while the thread is running
C12_Witness ==
    /\ qpc = "done"
    /\ qresult = [code |-> 200, isRunning |-> TRUE, devices |-> {}]
    /\ lpc = "sleep"
    /\ nframes > 0
    /\ Keys(network_devices) = {}

\* C13: every record's packetLimit is positive in every reachable state,
\* and device_action on a known ip answers with success whatever the limit
\* is, replacing packetLimit only by a positive integer.
C13_LimitValidated ==
    /\ [](\A d \in AllDicts : \A ip \in Keys(d) : d[ip].packetLimit > 0)
    /\ [][ \A action \in Actions, limit \in Limits :
              ActApplyWith(action, limit) =>
                /\ aresult' = [code |-> 200, success |-> TRUE]
                /\ network_devices'[areq].status
                     = ApplyStatus(network_devices[areq], action).status
                /\ network_devices'[areq].packetLimit
                     = IF PyInt(limit).exc = "none" /\ PyInt(limit).n > 0
                       THEN PyInt(limit).n
                       ELSE network_devices[areq].packetLimit ]_vars

\* C14: device_action for an ip that is not a key of the registry answers
\* 404 without success and changes no dict: no record is created, none is
\* changed; and every 404 comes from a step that changes no dict.
C14_NotFoundNoChange ==
    /\ [][ (apc = "idle" /\ apc' = "done") =>
              /\ aresult' = [code |-> 404, success |-> FALSE]
              /\ UNCHANGED <<network_devices, old, lock>> ]_vars
    /\ [][ (aresult' # aresult /\ aresult' # NoResult /\ aresult'.code = 404) =>
              /\ apc = "idle"
              /\ UNCHANGED <<network_devices, old>> ]_vars

\* a 404 has been answered while the registry holds a record with a history
C14_Witness ==
    /\ apc = "done"
    /\ aresult = [code |-> 404, success |-> FALSE]
    /\ \E ip \in Keys(network_devices) :
          network_devices[ip].recentPacketHistory # <<>>

\* C15: device_action on a known ip with an action value other than
\* "block" and "unblock" answers with success, leaves the record's status
\* as it was, and creates or removes no record.
C15_UnknownActionNoOp ==
    [][ \A limit \in Limits :
          ActApplyWith("restart", limit) =>
            /\ aresult' = [code |-> 200, success |-> TRUE]
            /\ Keys(network_devices') = Keys(network_devices)
            /\ network_devices'[areq].status = network_devices[areq].status
      ]_vars

\* the record's stored identity is a placeholder
NeedsIdentity(dev) ==
    dev.macAddress = ZERO_MAC \/ dev.manufacturer = NA_MANUFACTURER

\* C16 as claimed: whenever packet_callback ends for a frame of an ip whose
\* record holds the zero MAC or the manufacturer "N/A", the record holds
\* the frame's MAC and the manufacturer derived from it.
C16_PlaceholderRefreshed ==
    [][ ( /\ (CbUpdate /\ lgen = 0) \/ CbSkipBlocked
          /\ NeedsIdentity(network_devices[lpkt.src]) ) =>
            /\ network_devices'[lpkt.src].macAddress = lpkt.mac
            /\ network_devices'[lpkt.src].manufacturer
                 = get_manufacturer(lpkt.mac) ]_vars

\* C16 as amended: the refresh happens whenever the record is not Blocked;
\* a frame of a Blocked record changes nothing, its placeholder identity
\* stays.
C16_RefreshedUnlessBlocked ==
    /\ [][ (CbUpdate /\ lgen = 0 /\ NeedsIdentity(network_devices[lpkt.src])) =>
              /\ network_devices'[lpkt.src].macAddress = lpkt.mac
              /\ network_devices'[lpkt.src].manufacturer
                   = get_manufacturer(lpkt.mac) ]_vars
    /\ [][ CbSkipBlocked => UNCHANGED <<network_devices, old>> ]_vars

\* packet_callback is about to update a record that an earlier frame created
\* with the zero MAC, with a frame that carries a real MAC
C16_Witness ==
    /\ lpc = "cb_update"
    /\ lgen = 0
    /\ network_devices[lpkt.src].macAddress = ZERO_MAC
    /\ network_devices[lpkt.src].packetCount >= 2
    /\ lpkt.mac # ZERO_MAC

\* the last n elements of s
LastN(n, s) == IF Len(s) <= n THEN s ELSE SubSeq(s, Len(s) - n + 1, Len(s))

\* C17: packetLengthThisCycle of a record holds the lengths of the frames
\* accepted for it since the clearing at the start of the cycle (the
\* clearing empties it, an accepted frame appends its length, nothing else
\* changes it), and the aggregation makes, of a record that is not Blocked
\* and has n > 0 lengths of sum b, recentPacketHistory the last 5 elements
\* of the old one followed by n and recentBandwidthRate the last 5 elements
\* of the old one followed by b; with no length both histories stay.
C17_FifoAppend ==
    /\ [][ (LoopClear /\ lgen = 0) =>
              \A ip \in Keys(network_devices') :
                  network_devices'[ip].packetLengthThisCycle = <<>> ]_vars
    /\ [][ \A ip \in Keys(network_devices) \cap Keys(network_devices') :
              network_devices'[ip].packetLengthThisCycle
                  # network_devices[ip].packetLengthThisCycle =>
                \/ lpc = "clear"
                \/ /\ lpc = "cb_update"
                   /\ lpkt.src = ip
                   /\ network_devices'[ip].packetLengthThisCycle
                        = Append(network_devices[ip].packetLengthThisCycle,
                                 lpkt.length) ]_vars
    /\ [][ (LoopAggregate /\ lgen = 0) =>
              \A ip \in Keys(network_devices) :
                  LET d == network_devices[ip]
                      e == network_devices'[ip]
                      n == Len(d.packetLengthThisCycle)
                      b == SumSeq(d.packetLengthThisCycle)
                  IN  d.status # "Blocked" =>
                        IF n > 0
                        THEN /\ e.recentPacketHistory
                                  = LastN(DETECTION_WINDOW_SIZE,
                                          d.recentPacketHistory \o <<n>>)
                             /\ e.recentBandwidthRate
                                  = LastN(DETECTION_WINDOW_SIZE,
                                          d.recentBandwidthRate \o <<b>>)
                        ELSE /\ e.recentPacketHistory = d.recentPacketHistory
                             /\ e.recentBandwidthRate = d.recentBandwidthRate
         ]_vars

\* a cycle with two frames has been aggregated into a full window
C17_Witness ==
    /\ lpc = "sleep"
    /\ \E ip \in Keys(network_devices) :
          /\ network_devices[ip].recentPacketHistory = <<1, 1, 1, 1, 2>>
          /\ network_devices[ip].recentBandwidthRate = <<2, 2, 2, 2, 4>>
          /\ network_devices[ip].packetLengthThisCycle = <<2, 2>>

\* C18: packet_callback runs only inside sniff(), so no frame is being
\* processed from the moment the aggregation is requested until the next
\* sniff(); recentPacketHistory is written only by the aggregation and
\* emptied only by a detection pass, never while the other is inside its
\* critical section; and a detection pass decides on recentPacketHistory
\* and packetLimit alone, whatever packetLengthThisCycle holds.
C18_CycleOrder ==
    /\ [](lpc \in {"agg_wait", "agg", "sleep", "clear_wait", "clear"} =>
              lpkt = NoPkt)
    /\ [](~(lpc = "agg" /\ qpc = "pass"))
    /\ [][ \A ip \in Keys(network_devices) \cap Keys(network_devices') :
              network_devices'[ip].recentPacketHistory
                  # network_devices[ip].recentPacketHistory =>
                \/ lpc = "agg" /\ lpc' = "sleep"
                \/ /\ qpc = "pass" /\ qpc' = "released"
                   /\ network_devices'[ip].recentPacketHistory = <<>> ]_vars
    /\ [][ (QueryPass /\ qgen = 0) =>
              \A ip \in Keys(network_devices) :
                  (network_devices'[ip].status = "Blocked") <=>
                     \/ network_devices[ip].status = "Blocked"
                     \/ SumSeq(network_devices[ip].recentPacketHistory)
                          > network_devices[ip].packetLimit ]_vars

\* a detection pass has ended and left Connected a device whose frames of
\* the cycle in flight alone exceed its limit
C18_Witness ==
    /\ qpc = "released"
    /\ lpc = "sniff"
    /\ \E ip \in Keys(network_devices) :
          /\ network_devices[ip].status = "Connected"
          /\ Len(network_devices[ip].packetLengthThisCycle)
               > network_devices[ip].packetLimit
          /\ network_devices[ip].recentPacketHistory = <<>>

\* C20: device_action with an action other than "block" never turns a
\* record that is not Blocked into a Blocked one and leaves both histories
\* as they are, even when it sets a limit below the sum of the window; it
\* is the detection pass that compares the window with the limit then set.
C20_LimitNotRetroactive ==
    /\ [][ \A action \in Actions \ {"block"}, limit \in Limits :
              ActApplyWith(action, limit) =>
                /\ network_devices'[areq].status = "Blocked" =>
                      network_devices[areq].status = "Blocked"
                /\ network_devices'[areq].recentPacketHistory
                      = network_devices[areq].recentPacketHistory
                /\ network_devices'[areq].recentBandwidthRate
                      = network_devices[areq].recentBandwidthRate ]_vars
    /\ [][ (QueryPass /\ qgen = 0) =>
              \A ip \in Keys(network_devices) :
                  ( /\ network_devices[ip].status # "Blocked"
                    /\ SumSeq(network_devices[ip].recentPacketHistory)
                         > network_devices[ip].packetLimit ) =>
                      network_devices'[ip].status = "Blocked" ]_vars

\* device_action has just lowered the limit of a Connected device below the
\* sum of its window
C20_Witness ==
    /\ apc = "done"
    /\ aresult = [code |-> 200, success |-> TRUE]
    /\ \E ip \in Keys(network_devices) :
          /\ network_devices[ip].status = "Connected"
          /\ network_devices[ip].packetLimit = 1
          /\ SumSeq(network_devices[ip].recentPacketHistory) > 1

\* the lock is held exactly by a thread that is inside a `with lock` block,
\* and packet_callback is never entered by a thread that holds the lock
LockHeldInside ==
    /\ lock = "loop" <=> lpc \in {"clear", "cb_fetch", "cb_update", "agg"}
    /\ lock = "query" <=> qpc = "pass"
    /\ lock = "action" <=> apc = "fetch"
    /\ lock \in {"free", "loop", "query", "action"}

\* C19 as claimed: no state is a deadlock, packet_callback is never entered
\* with the lock held, and every thread that waits for the lock (the
\* clearing, packet_callback, the aggregation, a status request) gets it,
\* each thread taking the steps it can take for ever (weak fairness).
C19_EveryWaiterServed ==
    /\ [](LockHeldInside /\ ENABLED NextFair)
    /\ (lock # "free" ~> lock = "free")
    /\ (qpc = "wait" ~> qpc = "pass")
    /\ (lpc = "clear_wait" ~> lpc = "clear")
    /\ (lpc = "cb_wait" ~> lpc = "cb_fetch")
    /\ (lpc = "agg_wait" ~> lpc = "agg")

\* C19 as amended: no state is a deadlock, packet_callback is never entered
\* with the lock held, every thread that holds the lock releases it, and a
\* thread that waits for the lock gets it provided it is not passed over
\* for ever each time the lock is free (strong fairness of its acquisition).
C19_WaiterServedIfNotPassedOver ==
    /\ [](LockHeldInside /\ ENABLED NextFair)
    /\ (lock # "free" ~> lock = "free")
    /\ (SF_vars(Taken(QueryAcquire)) => (qpc = "wait" ~> qpc = "pass"))
    /\ (SF_vars(Taken(LoopClearAcquire)) => (lpc = "clear_wait" ~> lpc = "clear"))
    /\ (SF_vars(Taken(CbEnter)) => (lpc = "cb_wait" ~> lpc = "cb_fetch"))
    /\ (SF_vars(Taken(LoopAggAcquire)) => (lpc = "agg_wait" ~> lpc = "agg"))

\* a status request and the capture thread both wait for the lock that
\* device_action holds
C19_Witness ==
    /\ lock = "action"
    /\ qpc = "wait"
    /\ lpc = "agg_wait"

\* C21: when sniff() never fails, the capture thread, once started, runs
\* for ever (it never stops, the flag stays true) and ends cycle after cycle
\* without end, whatever status requests, device actions and resets do.
C21_LoopNeverStops ==
    /\ [](lpc # "stopped")
    /\ [](lpc # "start" => is_sniffing_running)
    /\ []<>(lpc = "sleep")

\* C22: whenever no thread is inside a critical section, every record, of
\* the registry and of every dict a thread still holds, has as many entries
\* in recentPacketHistory as in recentBandwidthRate.
C22_HistoriesInStep ==
    lock = "free" =>
        \A d \in AllDicts : \A ip \in Keys(d) :
            Len(d[ip].recentPacketHistory) = Len(d[ip].recentBandwidthRate)

\* a detection pass has blocked a device that had a window of several
\* cycles and emptied both histories, and a later frame of it is waiting
C22_Witness ==
    /\ lock = "free"
    /\ lpc = "cb_wait"
    /\ \E ip \in Keys(network_devices) :
          /\ network_devices[ip].status = "Blocked"
          /\ network_devices[ip].packetCount >= 4
          /\ network_devices[ip].recentPacketHistory = <<>>
          /\ network_devices[ip].recentBandwidthRate = <<>>

\* C23: for every record of the registry the sum of recentPacketHistory is
\* at most packetCount in every reachable state, and no step lowers
\* packetCount or bandwidthHistoryTotal of a record that stays in the
\* registry.
C23_WindowWithinTotal ==
    /\ [](\A ip \in Keys(network_devices) :
             SumSeq(network_devices[ip].recentPacketHistory)
                <= network_devices[ip].packetCount)
    /\ [][ \A ip \in Keys(network_devices) \cap Keys(network_devices') :
              /\ network_devices'[ip].packetCount
                   >= network_devices[ip].packetCount
              /\ network_devices'[ip].bandwidthHistoryTotal
                   >= network_devices[ip].bandwidthHistoryTotal ]_vars

\* two cycles, of one and of two frames, have been aggregated: the window
\* holds every packet counted
C23_Witness ==
    /\ lpc = "sleep"
    /\ \E ip \in Keys(network_devices) :
          /\ network_devices[ip].recentPacketHistory = <<1, 2>>
          /\ network_devices[ip].packetCount = 3
          /\ network_devices[ip].bandwidthHistoryTotal = 6

\* C24: the device list a successful status request serialises reports no
\* device as Connected with a sum of recentPacketHistory above its
\* packetLimit.
C24_NoConnectedAboveLimit ==
    qpc = "listed" =>
        \A ip \in qlist :
            ~ ( /\ Serialized[ip] # NoDev
                /\ Serialized[ip].status = "Connected"
                /\ SumSeq(Serialized[ip].recentPacketHistory)
                     > Serialized[ip].packetLimit )

====
